---- MODULE Spec2Model ----
(***************************************************************************)
(* Model of screenshot.py, the Upwork Wayland screenshot bridge: the       *)
(* capture backends (FlameshotBackend, GnomeScreenshotBackend), the        *)
(* ScreenshotManager that tries them in order, and the ScreenshotInterface *)
(* methods exported on the bus.                                            *)
(*                                                                         *)
(* A handler runs to completion on the event loop, so each method is one   *)
(* action.  What the external world does during a request is drawn per     *)
(* request: whether the parent directory of the target can be created      *)
(* (mkdirOK) and how the i-th process spawned by the request ends          *)
(* (outs[i]).  Paths are sequences of components, an absolute path starts  *)
(* with the component "/".                                                 *)
(*                                                                         *)
(* IdleMonitorInterface is the record idle; its methods are operators      *)
(* from the object and the arguments to the object afterwards, the value   *)
(* returned and the signals emitted.  Time is the value of utcnow() in     *)
(* microseconds.                                                           *)
(***************************************************************************)
EXTENDS Integers, Sequences, FiniteSets, TLC

\* ------------------------------------------------------------------------
\* Values
\* ------------------------------------------------------------------------

\* FlameshotBackend.name, GnomeScreenshotBackend.name
Flameshot == "flameshot"
GnomeScreenshot == "gnome-screenshot"

Tools == {Flameshot, GnomeScreenshot}

\* candidates of ScreenshotManager._initialize_backends, in order of preference
Candidates == <<Flameshot, GnomeScreenshot>>

\* How one subprocess.run(cmd, timeout=SCREENSHOT_TIMEOUT) ends:
\*   exit0_file    returncode 0 and Path(filename).exists()
\*   exit0_nofile  returncode 0 and the file is not there
\*   nonzero       returncode # 0
\*   timeout       subprocess.TimeoutExpired
\*   oserror       any other exception of run (binary vanished, ...)
RunOutcomes == {"exit0_file", "exit0_nofile", "nonzero", "timeout", "oserror"}

\* filenames a caller sends: one absolute, one relative
Filenames == { <<"/", "tmp", "x.png">>, <<"shot.png">> }

\* os.path.expanduser('~') and the value of XDG_PICTURES_DIR when it is set
Home == <<"/", "home", "user">>
PicturesDir == <<"/", "home", "user", "Pictures">>

\* XDG_PICTURES_DIR: not set, set to something that is no directory, set to
\* an existing directory
PicturesStates == {"unset", "missing", "dir"}

\* rectangles <<x, y, width, height>> a caller sends, one with width and
\* height <= 0
Rects == { <<10, 20, 100, 50>>, <<0, 0, 0, -1>> }

NoCmd == [bin |-> "", argv |-> <<>>, region |-> <<>>, path |-> <<>>]
NoRect == <<>>
\* the outcome recorded for a call that spawned no process
NotRun == "not_run"
NoReply == [success |-> FALSE, path |-> <<"?">>]

\* total_seconds() * 1000: a timedelta counts microseconds
MsPerSecond == 1000
UsPerSecond == 1000000

\* the clock advances in steps of TickUs microseconds, MaxTicks times
TickUs == 500
MaxTicks == 3

\* AddIdleWatch and AddUserActiveWatch are called at most MaxWatches times
MaxWatches == 2

\* intervals (ms) a caller passes to AddIdleWatch
Intervals == {1, 5000}

\* idle times (ms) the real org.gnome.Mutter.IdleMonitor would report
RealIdleTimes == {0, 5000}

\* 'return None', and the place of a value that does not exist
NoValue == -1

VARIABLES
  binaryFound,   \* tool -> shutil.which(tool) found a binary at construction
  probes,        \* tool -> number of is_available() calls made on it
  backends,      \* ScreenshotManager.backends
  picturesDir,   \* state of XDG_PICTURES_DIR
  last,          \* the last request handled: arguments, tool calls, outcome
  retried,       \* the last request invoked a tool that had returned false
                 \* in the request before it
  idle,          \* the IdleMonitorInterface object
  now,           \* dt.datetime.utcnow(), in microseconds
  lastIdle,      \* the idle-monitor call just handled (none once time passed)
  fired,         \* the WatchFired signals emitted so far
  issued,        \* the watch ids returned so far, in order
  tracking,      \* IdleTracker: "external" while a supervised idle-event
                 \* process is read, "internal" otherwise
  main,          \* the process: where main() is, the exit status, what the
                 \* bus did
  loop           \* the event loop seen statement by statement: per client
                 \* the call it sent and how far its handler has come

vars == <<binaryFound, probes, backends, picturesDir, last, retried,
          idle, now, lastIdle, fired, issued, tracking, main, loop>>

\* ------------------------------------------------------------------------
\* Paths (os.path)
\* ------------------------------------------------------------------------

\* os.path.isabs
IsAbs(p) == Len(p) > 0 /\ p[1] = "/"

\* os.path.join(a, b)
PathJoin(a, b) == IF IsAbs(b) THEN b ELSE a \o b

\* (mutant) XDG_PICTURES_DIR is not consulted
ResolveFilenameHomeOnly(filename, pics) ==
  IF IsAbs(filename) THEN filename
  ELSE PathJoin(Home, filename)

\* ScreenshotInterface._resolve_filename.  It is called before the try
\* block of Screenshot and ScreenshotArea; on a string filename none of
\* isabs, isdir, expanduser and join raises, so it has no exceptional
\* outcome.
ResolveFilename(filename, pics) ==
  IF IsAbs(filename) THEN filename
  ELSE IF pics = "dir" THEN PathJoin(PicturesDir, filename)
  ELSE PathJoin(Home, filename)

\* ------------------------------------------------------------------------
\* Backends.  A call yields [tool, cmd, outcome, result]: cmd is the
\* command line built, outcome how the spawned process ended, result is
\* "true" or "false" for the returned bool and "raise" when an exception
\* leaves the method.
\* ------------------------------------------------------------------------

\* the try block around subprocess.run: only exit status 0 with the file
\* present is True, every other end of the process is False
RunResult(out) ==
  IF out = "exit0_file" THEN "true" ELSE "false"

\* FlameshotBackend.capture_full_sync: mkdir of the parent is outside the
\* try block; include_cursor is not used
FlameshotCaptureFull(filename, include_cursor, mkdirOK, out) ==
  IF ~mkdirOK
  THEN [tool |-> Flameshot, cmd |-> NoCmd, outcome |-> NotRun,
        result |-> "raise"]
  ELSE [tool |-> Flameshot,
        cmd |-> [bin |-> Flameshot, argv |-> <<"full", "--path">>,
                 region |-> <<>>, path |-> filename],
        outcome |-> out, result |-> RunResult(out)]

\* FlameshotBackend.capture_area_sync: region string is WxH+X+Y
FlameshotCaptureArea(filename, x, y, width, height, mkdirOK, out) ==
  IF ~mkdirOK
  THEN [tool |-> Flameshot, cmd |-> NoCmd, outcome |-> NotRun,
        result |-> "raise"]
  ELSE [tool |-> Flameshot,
        cmd |-> [bin |-> Flameshot, argv |-> <<"full", "--region", "--path">>,
                 region |-> <<width, height, x, y>>, path |-> filename],
        outcome |-> out, result |-> RunResult(out)]

\* GnomeScreenshotBackend.capture_full_sync
GnomeCaptureFull(filename, include_cursor, mkdirOK, out) ==
  IF ~mkdirOK
  THEN [tool |-> GnomeScreenshot, cmd |-> NoCmd, outcome |-> NotRun,
        result |-> "raise"]
  ELSE [tool |-> GnomeScreenshot,
        cmd |-> [bin |-> GnomeScreenshot,
                 argv |-> IF include_cursor THEN <<"-f", "-p">> ELSE <<"-f">>,
                 region |-> <<>>, path |-> filename],
        outcome |-> out, result |-> RunResult(out)]

\* (mutant) an empty rectangle is refused instead of captured full screen
GnomeCaptureAreaRefusesEmpty(filename, x, y, width, height, mkdirOK, out) ==
  IF width <= 0 \/ height <= 0
  THEN [tool |-> GnomeScreenshot, cmd |-> NoCmd, outcome |-> NotRun,
        result |-> "false"]
  ELSE GnomeCaptureFull(filename, FALSE, mkdirOK, out)

\* GnomeScreenshotBackend.capture_area_sync
GnomeCaptureArea(filename, x, y, width, height, mkdirOK, out) ==
  GnomeCaptureFull(filename, FALSE, mkdirOK, out)

\* backend.capture_full_sync(filename, include_cursor), by class
BackendCaptureFull(tool, filename, include_cursor, mkdirOK, out) ==
  IF tool = Flameshot
  THEN FlameshotCaptureFull(filename, include_cursor, mkdirOK, out)
  ELSE GnomeCaptureFull(filename, include_cursor, mkdirOK, out)

\* backend.capture_area_sync(filename, x, y, width, height), by class
BackendCaptureArea(tool, filename, x, y, width, height, mkdirOK, out) ==
  IF tool = Flameshot
  THEN FlameshotCaptureArea(filename, x, y, width, height, mkdirOK, out)
  ELSE GnomeCaptureArea(filename, x, y, width, height, mkdirOK, out)

\* ------------------------------------------------------------------------
\* ScreenshotManager
\* ------------------------------------------------------------------------

\* the loop of _initialize_backends from candidate i on, acc = self.backends
RECURSIVE InitLoop(_, _, _, _)
InitLoop(cands, found, i, acc) ==
  IF i > Len(cands) THEN acc
  ELSE IF found[cands[i]]
       THEN InitLoop(cands, found, i + 1, Append(acc, cands[i]))
       ELSE InitLoop(cands, found, i + 1, acc)

\* (mutant) is_available() is not consulted: every candidate is retained
InitializeBackendsNoProbe(cands, found) == cands

\* ScreenshotManager._initialize_backends
InitializeBackends(cands, found) == InitLoop(cands, found, 1, <<>>)

\* is_available() is called once on every candidate in the loop
ProbeCounts(cands) ==
  [t \in Tools |-> Cardinality({i \in 1..Len(cands) : cands[i] = t})]

\* the for loop of ScreenshotManager.capture_full_sync from backend i on;
\* calls = the backend calls made so far
RECURSIVE FullLoop(_, _, _, _, _, _, _)
FullLoop(bks, i, filename, include_cursor, mkdirOK, outs, calls) ==
  IF i > Len(bks) THEN [calls |-> calls, result |-> "false"]
  ELSE LET c == BackendCaptureFull(bks[i], filename, include_cursor,
                                   mkdirOK, outs[i])
       IN  IF c.result = "raise"
           THEN [calls |-> Append(calls, c), result |-> "raise"]
           ELSE IF c.result = "true"
           THEN [calls |-> Append(calls, c), result |-> "true"]
           ELSE FullLoop(bks, i + 1, filename, include_cursor, mkdirOK,
                         outs, Append(calls, c))

\* (mutant) the backends are tried last to first
ManagerCaptureFullReversed(bks, filename, include_cursor, mkdirOK, outs) ==
  FullLoop([i \in 1..Len(bks) |-> bks[Len(bks) + 1 - i]], 1, filename,
           include_cursor, mkdirOK, outs, <<>>)

\* (mutant) the loop does not return on the first success: every backend is
\* called and the result is that of the last one
RECURSIVE FullLoopNoReturn(_, _, _, _, _, _, _)
FullLoopNoReturn(bks, i, filename, include_cursor, mkdirOK, outs, calls) ==
  IF i > Len(bks)
  THEN [calls |-> calls,
        result |-> IF calls = <<>> THEN "false" ELSE calls[Len(calls)].result]
  ELSE LET c == BackendCaptureFull(bks[i], filename, include_cursor,
                                   mkdirOK, outs[i])
       IN  IF c.result = "raise"
           THEN [calls |-> Append(calls, c), result |-> "raise"]
           ELSE FullLoopNoReturn(bks, i + 1, filename, include_cursor,
                                 mkdirOK, outs, Append(calls, c))

ManagerCaptureFullNoReturn(bks, filename, include_cursor, mkdirOK, outs) ==
  FullLoopNoReturn(bks, 1, filename, include_cursor, mkdirOK, outs, <<>>)

\* (mutant) an empty backend list counts as success
ManagerCaptureFullEmptyOk(bks, filename, include_cursor, mkdirOK, outs) ==
  IF bks = <<>> THEN [calls |-> <<>>, result |-> "true"]
  ELSE FullLoop(bks, 1, filename, include_cursor, mkdirOK, outs, <<>>)

\* ScreenshotManager.capture_full_sync
ManagerCaptureFull(bks, filename, include_cursor, mkdirOK, outs) ==
  FullLoop(bks, 1, filename, include_cursor, mkdirOK, outs, <<>>)

\* the for loop of ScreenshotManager.capture_area_sync from backend i on
RECURSIVE AreaLoop(_, _, _, _, _, _, _)
AreaLoop(bks, i, filename, rect, mkdirOK, outs, calls) ==
  IF i > Len(bks) THEN [calls |-> calls, result |-> "false"]
  ELSE LET c == BackendCaptureArea(bks[i], filename, rect[1], rect[2],
                                   rect[3], rect[4], mkdirOK, outs[i])
       IN  IF c.result = "raise"
           THEN [calls |-> Append(calls, c), result |-> "raise"]
           ELSE IF c.result = "true"
           THEN [calls |-> Append(calls, c), result |-> "true"]
           ELSE AreaLoop(bks, i + 1, filename, rect, mkdirOK, outs,
                         Append(calls, c))

\* (mutant) when every backend returned false the list is gone through a
\* second time
ManagerCaptureAreaRetry(bks, filename, rect, mkdirOK, outs) ==
  LET first == AreaLoop(bks, 1, filename, rect, mkdirOK, outs, <<>>)
  IN  IF first.result = "false"
      THEN AreaLoop(bks, 1, filename, rect, mkdirOK, outs, first.calls)
      ELSE first

\* ScreenshotManager.capture_area_sync
ManagerCaptureArea(bks, filename, rect, mkdirOK, outs) ==
  AreaLoop(bks, 1, filename, rect, mkdirOK, outs, <<>>)

\* (mutant) a backend that returned false is dropped from the list
BackendsDropFailed(bks, calls) ==
  SelectSeq(bks, LAMBDA t :
    ~ \E i \in 1..Len(calls) : calls[i].tool = t /\ calls[i].result = "false")

\* self.backends after a capture request: neither loop assigns it
BackendsAfterCapture(bks, calls) == bks

\* ------------------------------------------------------------------------
\* ScreenshotInterface.  A method yields [calls, manager, raised, reply]:
\* manager is what the manager call gave ("true", "false" or "raise"),
\* raised says that an exception left the method, and then there is no
\* reply.
\* ------------------------------------------------------------------------

\* the try/except of Screenshot and ScreenshotArea around the manager call
\* m, with the reply built from the resolved filename
\* (mutant) no except clause: the exception of the manager call leaves the
\* method
FacadeReplyNoCatch(m, resolved) ==
  IF m.result = "raise"
  THEN [calls |-> m.calls, manager |-> m.result, raised |-> TRUE,
        reply |-> NoReply]
  ELSE IF m.result = "true"
  THEN [calls |-> m.calls, manager |-> m.result, raised |-> FALSE,
        reply |-> [success |-> TRUE, path |-> resolved]]
  ELSE [calls |-> m.calls, manager |-> m.result, raised |-> FALSE,
        reply |-> [success |-> FALSE, path |-> <<>>]]

\* (mutant) the failure reply carries the resolved filename
FacadeReplyPathOnFailure(m, resolved) ==
  [calls |-> m.calls, manager |-> m.result, raised |-> FALSE,
   reply |-> [success |-> (m.result = "true"), path |-> resolved]]

FacadeReply(m, resolved) ==
  IF m.result = "raise"
  THEN \* except Exception: return [False, '']
       [calls |-> m.calls, manager |-> m.result, raised |-> FALSE,
        reply |-> [success |-> FALSE, path |-> <<>>]]
  ELSE IF m.result = "true"
  THEN [calls |-> m.calls, manager |-> m.result, raised |-> FALSE,
        reply |-> [success |-> TRUE, path |-> resolved]]
  ELSE [calls |-> m.calls, manager |-> m.result, raised |-> FALSE,
        reply |-> [success |-> FALSE, path |-> <<>>]]

\* ScreenshotInterface.Screenshot
Screenshot(include_cursor, flash, filename, bks, pics, mkdirOK, outs) ==
  LET resolved_filename == ResolveFilename(filename, pics)
  IN  FacadeReply(ManagerCaptureFull(bks, resolved_filename, include_cursor,
                                     mkdirOK, outs),
                  resolved_filename)

\* (mutant) the arguments are passed on shifted by one: include_frame lands
\* in the place of include_cursor
ScreenshotWindowFrameAsCursor(include_frame, include_cursor, flash, filename, bks, pics, mkdirOK, outs) ==
  Screenshot(include_frame, include_cursor, filename, bks, pics, mkdirOK, outs)

\* ScreenshotInterface.ScreenshotWindow
ScreenshotWindow(include_frame, include_cursor, flash, filename, bks, pics, mkdirOK, outs) ==
  Screenshot(include_cursor, flash, filename, bks, pics, mkdirOK, outs)

\* ScreenshotInterface.ScreenshotArea
ScreenshotArea(rect, flash, filename, bks, pics, mkdirOK, outs) ==
  LET resolved_filename == ResolveFilename(filename, pics)
  IN  FacadeReply(ManagerCaptureArea(bks, resolved_filename, rect,
                                     mkdirOK, outs),
                  resolved_filename)

\* ------------------------------------------------------------------------
\* IdleMonitorInterface.  A method yields [self, ret, emitted]: the object
\* afterwards, the value returned and the WatchFired signals emitted.
\* ------------------------------------------------------------------------

\* IdleMonitorInterface.__init__ at time t
IdleMonitorInit(t) ==
  [last_active |-> t, watch_id_counter |-> 1, watches |-> <<>>,
   real_monitor |-> "none", use_real_monitor |-> FALSE]

\* IdleMonitorInterface.try_connect_real_monitor: reachable says whether
\* introspecting the real monitor succeeded
TryConnectRealMonitor(self, reachable) ==
  IF reachable
  THEN [self EXCEPT !.real_monitor = "proxy", !.use_real_monitor = TRUE]
  ELSE self

\* (mutant) the timestamp is not stored
UpdateActivityNoStore(self, t) == self

\* IdleMonitorInterface._update_activity
UpdateActivity(self, t) == [self EXCEPT !.last_active = t]

\* int(delta.total_seconds() * 1000) for a delta of us microseconds
IdleMs(us) == (us * MsPerSecond) \div UsPerSecond

\* (mutant) a query counts as activity
GetIdletimeTouchesActivity(self, t) ==
  [self |-> UpdateActivity(self, t),
   ret |-> IF self.use_real_monitor /\ self.real_monitor # "none"
           THEN 0 ELSE IdleMs(t - self.last_active),
   emitted |-> <<>>]

\* (mutant) the query compares the idle time with the idle watches and
\* emits WatchFired for one that is due
GetIdletimeFiresWatches(self, t) ==
  LET due == {i \in DOMAIN self.watches :
                /\ self.watches[i].type = "idle"
                /\ self.watches[i].interval <= IdleMs(t - self.last_active)}
  IN  [self |-> self,
       ret |-> IF self.use_real_monitor /\ self.real_monitor # "none"
               THEN 0 ELSE IdleMs(t - self.last_active),
       emitted |-> IF due = {} THEN <<>> ELSE <<CHOOSE i \in due : TRUE>>]

\* IdleMonitorInterface.GetIdletime at time t
GetIdletime(self, t) ==
  IF self.use_real_monitor /\ self.real_monitor # "none"
  THEN [self |-> self, ret |-> 0, emitted |-> <<>>]
  ELSE [self |-> self, ret |-> IdleMs(t - self.last_active),
        emitted |-> <<>>]

\* IdleMonitorInterface.AddIdleWatch
AddIdleWatch(self, interval) ==
  LET watch_id == self.watch_id_counter
  IN  [self |-> [self EXCEPT
                   !.watch_id_counter = @ + 1,
                   !.watches = [i \in DOMAIN @ \cup {watch_id} |->
                                  IF i = watch_id
                                  THEN [type |-> "idle", interval |-> interval]
                                  ELSE @[i]]],
       ret |-> watch_id, emitted |-> <<>>]

\* (mutant) the id is the size of the registry plus one
AddUserActiveWatchBySize(self) ==
  LET watch_id == Cardinality(DOMAIN self.watches) + 1
  IN  [self |-> [self EXCEPT
                   !.watch_id_counter = @ + 1,
                   !.watches = [i \in DOMAIN @ \cup {watch_id} |->
                                  IF i = watch_id
                                  THEN [type |-> "active"]
                                  ELSE @[i]]],
       ret |-> watch_id, emitted |-> <<>>]

\* IdleMonitorInterface.AddUserActiveWatch
AddUserActiveWatch(self) ==
  LET watch_id == self.watch_id_counter
  IN  [self |-> [self EXCEPT
                   !.watch_id_counter = @ + 1,
                   !.watches = [i \in DOMAIN @ \cup {watch_id} |->
                                  IF i = watch_id
                                  THEN [type |-> "active"]
                                  ELSE @[i]]],
       ret |-> watch_id, emitted |-> <<>>]

\* (mutant) the entry is looked up but not deleted
RemoveWatchNoDelete(self, id) ==
  [self |-> self, ret |-> NoValue, emitted |-> <<>>]

\* (mutant) the registry is emptied instead of one entry deleted
RemoveWatchClearsAll(self, id) ==
  IF id \in DOMAIN self.watches
  THEN [self |-> [self EXCEPT !.watches = <<>>],
        ret |-> NoValue, emitted |-> <<>>]
  ELSE [self |-> self, ret |-> NoValue, emitted |-> <<>>]

\* IdleMonitorInterface.RemoveWatch
RemoveWatch(self, id) ==
  IF id \in DOMAIN self.watches
  THEN [self |-> [self EXCEPT
                    !.watches = [i \in DOMAIN @ \ {id} |-> @[i]]],
        ret |-> NoValue, emitted |-> <<>>]
  ELSE [self |-> self, ret |-> NoValue, emitted |-> <<>>]

\* IdleMonitorInterface.ResetIdletime at time t
ResetIdletime(self, t) ==
  [self |-> UpdateActivity(self, t), ret |-> NoValue, emitted |-> <<>>]

\* ------------------------------------------------------------------------
\* State machine
\* ------------------------------------------------------------------------

\* main() is not part of the run: the interfaces are driven directly
NoMain ==
  [pc |-> "none", exit |-> NoValue, bus |-> "none", exported |-> {},
   screenshotName |-> "none", idleName |-> "none", steps |-> <<>>,
   served |-> FALSE]

\* the callers whose calls can be in flight at the same time
Clients == {"c1", "c2"}

\* no call of this client is in flight
NoFrame ==
  [pc |-> "none", op |-> "none", arg |-> NoValue, watch_id |-> NoValue,
   before |-> <<>>]

\* handlers are not looked at statement by statement
NoLoop == [frames |-> [c \in Clients |-> NoFrame], removed |-> {}]

\* no idle-monitor call has just been handled
NoIdleCall ==
  [op |-> "none", arg |-> NoValue, real |-> NoValue, ret |-> NoValue,
   before |-> <<>>, undoes |-> FALSE]

NoRequest ==
  [method |-> "none", include_frame |-> FALSE, include_cursor |-> FALSE,
   flash |-> FALSE, filename |-> <<>>, rect |-> NoRect,
   world |-> [mkdirOK |-> TRUE, outs |-> <<>>],
   calls |-> <<>>, manager |-> "none", raised |-> FALSE, reply |-> NoReply]

\* the tools of a sequence of backend calls
CallTools(calls) == [i \in 1..Len(calls) |-> calls[i].tool]

\* a call of the new request went to a tool that returned false in the
\* request before
Retries(old, new) ==
  \E i \in 1..Len(new), j \in 1..Len(old) :
     new[i].tool = old[j].tool /\ old[j].result = "false"

\* ScreenshotManager() and the ScreenshotInterface around it, for every
\* outcome of the two shutil.which lookups.  The interface is modelled on
\* every manager, also one that retained no backend (main exits before it
\* exports the interface in that case).
Init ==
  /\ binaryFound \in [Tools -> BOOLEAN]
  /\ probes = ProbeCounts(Candidates)
  /\ backends = InitializeBackends(Candidates, binaryFound)
  /\ picturesDir \in PicturesStates
  /\ last = NoRequest
  /\ retried = FALSE
  /\ now = 0
  /\ idle = IdleMonitorInit(now)
  /\ lastIdle = NoIdleCall
  /\ fired = <<>>
  /\ issued = <<>>
  /\ tracking = "internal"
  /\ main = NoMain
  /\ loop = NoLoop

\* What the world does during one request that can spawn up to n processes:
\* the parent directory cannot be created (then nothing is spawned), or it
\* can and the i-th process spawned ends as outs[i].
Worlds(n) ==
  {[mkdirOK |-> FALSE, outs |-> [i \in 1..n |-> NotRun]]}
    \cup {[mkdirOK |-> TRUE, outs |-> o] : o \in [1..n -> RunOutcomes]}

Handled(method, frame, cursor, flash, filename, rect, w, r) ==
  /\ last' = [method |-> method, include_frame |-> frame,
              include_cursor |-> cursor, flash |-> flash,
              filename |-> filename, rect |-> rect, world |-> w,
              calls |-> r.calls, manager |-> r.manager,
              raised |-> r.raised, reply |-> r.reply]
  /\ retried' = Retries(last.calls, r.calls)
  /\ backends' = BackendsAfterCapture(backends, r.calls)
  /\ lastIdle' = NoIdleCall
  /\ UNCHANGED <<binaryFound, probes, picturesDir, idle, now, fired, issued,
                 tracking, main, loop>>

DoScreenshot ==
  \E include_cursor \in BOOLEAN, flash \in BOOLEAN, filename \in Filenames,
     w \in Worlds(Len(backends)) :
    Handled("Screenshot", FALSE, include_cursor, flash, filename, NoRect, w,
            Screenshot(include_cursor, flash, filename, backends,
                       picturesDir, w.mkdirOK, w.outs))

DoScreenshotWindow ==
  \E include_frame \in BOOLEAN, include_cursor \in BOOLEAN,
     flash \in BOOLEAN, filename \in Filenames,
     w \in Worlds(Len(backends)) :
    Handled("ScreenshotWindow", include_frame, include_cursor, flash,
            filename, NoRect, w,
            ScreenshotWindow(include_frame, include_cursor, flash, filename,
                             backends, picturesDir, w.mkdirOK, w.outs))

DoScreenshotArea ==
  \E rect \in Rects, flash \in BOOLEAN, filename \in Filenames,
     w \in Worlds(Len(backends)) :
    Handled("ScreenshotArea", FALSE, FALSE, flash, filename, rect, w,
            ScreenshotArea(rect, flash, filename, backends,
                           picturesDir, w.mkdirOK, w.outs))

Next ==
  \/ DoScreenshot
  \/ DoScreenshotWindow
  \/ DoScreenshotArea

Spec == Init /\ [][Next]_vars

\* ------------------------------------------------------------------------
\* The idle monitor alone: the object as main leaves it (after
\* try_connect_real_monitor), its five methods, and the passage of time.
\* ------------------------------------------------------------------------

InitIdle ==
  /\ binaryFound = [t \in Tools |-> TRUE]
  /\ probes = ProbeCounts(Candidates)
  /\ backends = InitializeBackends(Candidates, binaryFound)
  /\ picturesDir = "unset"
  /\ last = NoRequest
  /\ retried = FALSE
  /\ now = 0
  /\ \E reachable \in BOOLEAN :
        idle = TryConnectRealMonitor(IdleMonitorInit(now), reachable)
  /\ lastIdle = NoIdleCall
  /\ fired = <<>>
  /\ issued = <<>>
  /\ tracking = "internal"
  /\ main = NoMain
  /\ loop = NoLoop

\* an idle-monitor call op(arg) was handled with result r; real is what the
\* real monitor would have answered
IdleHandled(op, arg, real, r) ==
  /\ idle' = r.self
  /\ fired' = fired \o r.emitted
  /\ issued' = IF op \in {"AddIdleWatch", "AddUserActiveWatch"}
               THEN Append(issued, r.ret) ELSE issued
  /\ lastIdle' = [op |-> op, arg |-> arg, real |-> real, ret |-> r.ret,
                  before |-> idle.watches,
                  undoes |-> /\ op = "RemoveWatch"
                             /\ lastIdle.op \in {"AddIdleWatch",
                                                 "AddUserActiveWatch"}
                             /\ lastIdle.ret = arg]
  /\ last' = NoRequest
  /\ retried' = FALSE
  /\ UNCHANGED <<binaryFound, probes, backends, picturesDir, now, tracking,
                 main, loop>>

DoGetIdletime ==
  \E real \in (IF idle.use_real_monitor THEN RealIdleTimes ELSE {NoValue}) :
    IdleHandled("GetIdletime", NoValue, real, GetIdletime(idle, now))

DoAddIdleWatch ==
  /\ idle.watch_id_counter <= MaxWatches
  /\ \E interval \in Intervals :
       IdleHandled("AddIdleWatch", interval, NoValue,
                   AddIdleWatch(idle, interval))

DoAddUserActiveWatch ==
  /\ idle.watch_id_counter <= MaxWatches
  /\ IdleHandled("AddUserActiveWatch", NoValue, NoValue,
                 AddUserActiveWatch(idle))

\* a caller passes any id: one it was given, 0, or one not yet given out
DoRemoveWatch ==
  \E id \in 0..(MaxWatches + 1) :
    IdleHandled("RemoveWatch", id, NoValue, RemoveWatch(idle, id))

DoResetIdletime ==
  IdleHandled("ResetIdletime", NoValue, NoValue, ResetIdletime(idle, now))

\* time passes
Tick ==
  /\ now + TickUs <= MaxTicks * TickUs
  /\ now' = now + TickUs
  /\ lastIdle' = NoIdleCall
  /\ last' = NoRequest
  /\ retried' = FALSE
  /\ UNCHANGED <<binaryFound, probes, backends, picturesDir, idle, fired,
                 issued, tracking, main, loop>>

NextIdle ==
  \/ DoGetIdletime
  \/ DoAddIdleWatch
  \/ DoAddUserActiveWatch
  \/ DoRemoveWatch
  \/ DoResetIdletime
  \/ Tick

SpecIdle == InitIdle /\ [][NextIdle]_vars

\* ------------------------------------------------------------------------
\* Both interfaces together with the idle-event reader of the IdleTracker:
\* a background task that reads the lines of a supervised idle-event
\* process and, on a "resume" line, sets last_active to the current time.
\* screenshot.py spawns no such process (its tracking is always
\* "internal"); the reader is taken from the design document.
\* ------------------------------------------------------------------------

\* the start of the IdleTracker: spawning the idle-event process succeeded
\* ("external") or failed ("internal")
TrackingModes == {"internal", "external"}

\* The manager of this specification retained no backend: what a capture
\* does with the tools is the subject of Spec, here the screenshot methods
\* matter for what they do to the idle monitor.
InitTracker ==
  /\ binaryFound = [t \in Tools |-> FALSE]
  /\ probes = ProbeCounts(Candidates)
  /\ backends = InitializeBackends(Candidates, binaryFound)
  /\ picturesDir = "unset"
  /\ last = NoRequest
  /\ retried = FALSE
  /\ now = 0
  /\ \E reachable \in BOOLEAN :
        idle = TryConnectRealMonitor(IdleMonitorInit(now), reachable)
  /\ lastIdle = NoIdleCall
  /\ fired = <<>>
  /\ issued = <<>>
  /\ tracking \in TrackingModes
  /\ main = NoMain
  /\ loop = NoLoop

\* the reader task handles one "resume" line of the idle-event process
ResumeEvent ==
  /\ tracking = "external"
  /\ IdleHandled("resume", NoValue, NoValue,
                 [self |-> UpdateActivity(idle, now), ret |-> NoValue,
                  emitted |-> <<>>])

NextTracker ==
  \/ DoScreenshot
  \/ DoScreenshotWindow
  \/ DoScreenshotArea
  \/ DoGetIdletime
  \/ DoAddIdleWatch
  \/ DoAddUserActiveWatch
  \/ DoRemoveWatch
  \/ DoResetIdletime
  \/ ResumeEvent
  \/ Tick

SpecTracker == InitTracker /\ [][NextTracker]_vars

\* ------------------------------------------------------------------------
\* main(): from the start of the process to "Bridge is ready", and the
\* shutdown on SIGTERM or SIGINT.  One action per statement group between
\* two points where main can leave.
\* ------------------------------------------------------------------------

\* How 'await bus.request_name(name)' (default flags) ends: the bus made
\* this connection the owner, it queued the request because another
\* connection owns the name (a normal reply, nothing is raised), or the call
\* raised DBusError.
RequestNameOutcomes == {"primary_owner", "in_queue", "dbus_error"}

\* the IdleMonitorInterface before main has created it
IdleNotCreated ==
  [last_active |-> NoValue, watch_id_counter |-> 0, watches |-> <<>>,
   real_monitor |-> "none", use_real_monitor |-> FALSE]

InitMain ==
  /\ binaryFound \in [Tools -> BOOLEAN]
  /\ probes = [t \in Tools |-> 0]
  /\ backends = <<>>
  /\ picturesDir = "unset"
  /\ last = NoRequest
  /\ retried = FALSE
  /\ now = 0
  /\ idle = IdleNotCreated
  /\ lastIdle = NoIdleCall
  /\ fired = <<>>
  /\ issued = <<>>
  /\ tracking = "internal"
  /\ main = [NoMain EXCEPT !.pc = "start"]
  /\ loop = NoLoop

MainFrame ==
  UNCHANGED <<binaryFound, picturesDir, last, retried, now, lastIdle, fired,
              issued, tracking, loop>>

\* sys.exit(status)
Exit(m, status) == [m EXCEPT !.pc = "exited", !.exit = status]

\* main has gone through the statements called name (steps is the record of
\* what main did, in order; the program does not read it)
Step(m, name) == [m EXCEPT !.steps = Append(@, name)]

\* (mutant) main goes on with an empty backend list
AfterCreateManagerNoCheck(m, bks) == [m EXCEPT !.pc = "connect"]

\* if not manager.backends: sys.exit(1)
AfterCreateManager(m, bks) ==
  IF bks = <<>> THEN Exit(m, 1) ELSE [m EXCEPT !.pc = "connect"]

\* manager = ScreenshotManager(); exit(1) if it retained no backend
MainCreateManager ==
  /\ main.pc = "start"
  /\ probes' = ProbeCounts(Candidates)
  /\ backends' = InitializeBackends(Candidates, binaryFound)
  /\ main' = AfterCreateManager(Step(main, "manager"), backends')
  /\ UNCHANGED idle
  /\ MainFrame

\* bus = await MessageBus(bus_type=BusType.SESSION).connect()
MainConnectBus ==
  /\ main.pc = "connect"
  /\ \E connected \in BOOLEAN :
       main' = IF connected
               THEN [Step(main, "connect") EXCEPT !.pc = "interfaces",
                                                  !.bus = "session"]
               ELSE Exit(Step(main, "connect"), 1)
  /\ UNCHANGED <<probes, backends, idle>>
  /\ MainFrame

\* the two interface objects, and idle.try_connect_real_monitor(bus)
MainCreateInterfaces ==
  /\ main.pc = "interfaces"
  /\ \E reachable \in BOOLEAN :
       idle' = TryConnectRealMonitor(IdleMonitorInit(now), reachable)
  /\ main' = [Step(main, "interfaces") EXCEPT !.pc = "export"]
  /\ UNCHANGED <<probes, backends>>
  /\ MainFrame

\* bus.export of both objects
MainExport ==
  /\ main.pc = "export"
  /\ main' = [Step(main, "export") EXCEPT
                !.pc = "screenshot_name",
                !.exported = {"/org/gnome/Shell/Screenshot",
                              "/org/gnome/Mutter/IdleMonitor/Core"}]
  /\ UNCHANGED <<probes, backends, idle>>
  /\ MainFrame

\* try: await bus.request_name('org.gnome.Shell.Screenshot')
\* except DBusError: sys.exit(1)
AfterScreenshotName(m, outcome) ==
  IF outcome = "dbus_error"
  THEN Exit([m EXCEPT !.screenshotName = outcome], 1)
  ELSE [m EXCEPT !.screenshotName = outcome, !.pc = "idle_name"]

MainRequestScreenshotName ==
  /\ main.pc = "screenshot_name"
  /\ \E outcome \in RequestNameOutcomes :
       main' = AfterScreenshotName(Step(main, "screenshot_name"), outcome)
  /\ UNCHANGED <<probes, backends, idle>>
  /\ MainFrame

\* try: await bus.request_name('org.gnome.Mutter.IdleMonitor')
\* except DBusError: debug(...); then "Bridge is ready!"
AfterIdleName(m, outcome) ==
  [m EXCEPT !.idleName = outcome, !.pc = "ready"]

MainRequestIdleName ==
  /\ main.pc = "idle_name"
  /\ \E outcome \in RequestNameOutcomes :
       main' = AfterIdleName(Step(main, "idle_name"), outcome)
  /\ UNCHANGED <<probes, backends, idle>>
  /\ MainFrame

\* SIGTERM or SIGINT while waiting: stop_event is set, main returns
MainSignal ==
  /\ main.pc = "ready"
  /\ main' = Exit(main, 0)
  /\ UNCHANGED <<probes, backends, idle>>
  /\ MainFrame

\* The event loop hands an inbound call to an exported object.  It can do so
\* whenever main is suspended in an await with the connection open and the
\* objects exported: in the two name requests (for a caller that addresses
\* the connection by its unique name) and in the wait for the stop event.
\* The call served here is ResetIdletime; what each method does is the
\* subject of the other specifications.
MainServe ==
  /\ main.pc \in {"screenshot_name", "idle_name", "ready"}
  /\ main.bus = "session"
  /\ main.exported # {}
  /\ idle' = ResetIdletime(idle, now).self
  /\ main' = [main EXCEPT !.served = TRUE]
  /\ UNCHANGED <<probes, backends>>
  /\ MainFrame

NextMain ==
  \/ MainCreateManager
  \/ MainConnectBus
  \/ MainCreateInterfaces
  \/ MainExport
  \/ MainRequestScreenshotName
  \/ MainRequestIdleName
  \/ MainSignal
  \/ MainServe
  \/ Tick

SpecMain == InitMain /\ [][NextMain]_vars

\* ------------------------------------------------------------------------
\* The watch handlers statement by statement, with calls of two clients in
\* flight.  The handlers are plain functions without an await, called from
\* the one thread that runs the event loop: the loop takes the next message
\* only when the handler it called has returned.
\* ------------------------------------------------------------------------

WatchOps == {"AddIdleWatch", "AddUserActiveWatch", "RemoveWatch"}

\* (mutant) a call is dispatched while another handler is between two
\* statements, as with a handler per thread
LoopFreeAlways(frames) == TRUE

\* the loop is back in its select: no handler has been entered and not left
LoopFree(frames) == \A c \in Clients : frames[c].pc \in {"none", "queued"}

\* self._watches[watch_id] = {...}
StoreWatch(self, watch_id, entry) ==
  [self EXCEPT !.watches = [i \in DOMAIN @ \cup {watch_id} |->
                              IF i = watch_id THEN entry ELSE @[i]]]

\* the dict the add handler stores
WatchEntry(op, arg) ==
  IF op = "AddIdleWatch" THEN [type |-> "idle", interval |-> arg]
  ELSE [type |-> "active"]

\* what the handler of frame f does when nothing else runs from its entry
\* to its return
Uninterrupted(f) ==
  IF f.op = "AddIdleWatch" THEN AddIdleWatch(f.before, f.arg)
  ELSE IF f.op = "AddUserActiveWatch" THEN AddUserActiveWatch(f.before)
  ELSE RemoveWatch(f.before, f.arg)

AddsInFlight ==
  Cardinality({c \in Clients : /\ loop.frames[c].pc # "none"
                               /\ loop.frames[c].op # "RemoveWatch"})

InitDispatch ==
  /\ binaryFound = [t \in Tools |-> FALSE]
  /\ probes = ProbeCounts(Candidates)
  /\ backends = InitializeBackends(Candidates, binaryFound)
  /\ picturesDir = "unset"
  /\ last = NoRequest
  /\ retried = FALSE
  /\ now = 0
  /\ idle = IdleMonitorInit(now)
  /\ lastIdle = NoIdleCall
  /\ fired = <<>>
  /\ issued = <<>>
  /\ tracking = "external"
  /\ main = NoMain
  /\ loop = NoLoop

DispatchFrame ==
  UNCHANGED <<binaryFound, probes, backends, picturesDir, last, retried, now,
              lastIdle, fired, tracking, main>>

SetFrame(c, f) == loop' = [loop EXCEPT !.frames[c] = f]

\* a client sends a method call; it waits in the socket
ClientCall(c) ==
  /\ loop.frames[c].pc = "none"
  /\ \E op \in WatchOps :
       /\ op # "RemoveWatch" => Len(issued) + AddsInFlight < MaxWatches
       /\ \E arg \in IF op = "AddIdleWatch" THEN Intervals
                     ELSE IF op = "RemoveWatch" THEN 1..MaxWatches
                     ELSE {NoValue} :
            SetFrame(c, [NoFrame EXCEPT !.pc = "queued", !.op = op,
                                        !.arg = arg])
  /\ UNCHANGED <<idle, issued>>
  /\ DispatchFrame

\* the loop reads the message and enters the handler
Dispatch(c) ==
  /\ loop.frames[c].pc = "queued"
  /\ LoopFree(loop.frames)
  /\ SetFrame(c, [loop.frames[c] EXCEPT
                    !.pc = IF loop.frames[c].op = "RemoveWatch"
                           THEN "test" ELSE "read",
                    !.before = idle])
  /\ UNCHANGED <<idle, issued>>
  /\ DispatchFrame

\* watch_id = self._watch_id_counter
AddRead(c) ==
  /\ loop.frames[c].pc = "read"
  /\ SetFrame(c, [loop.frames[c] EXCEPT
                    !.pc = "increment", !.watch_id = idle.watch_id_counter])
  /\ UNCHANGED <<idle, issued>>
  /\ DispatchFrame

\* self._watch_id_counter += 1
AddIncrement(c) ==
  /\ loop.frames[c].pc = "increment"
  /\ idle' = [idle EXCEPT !.watch_id_counter = @ + 1]
  /\ SetFrame(c, [loop.frames[c] EXCEPT !.pc = "store"])
  /\ UNCHANGED issued
  /\ DispatchFrame

\* self._watches[watch_id] = {...}
AddStore(c) ==
  /\ loop.frames[c].pc = "store"
  /\ idle' = StoreWatch(idle, loop.frames[c].watch_id,
                        WatchEntry(loop.frames[c].op, loop.frames[c].arg))
  /\ SetFrame(c, [loop.frames[c] EXCEPT !.pc = "return"])
  /\ UNCHANGED issued
  /\ DispatchFrame

\* if id in self._watches
RemoveTest(c) ==
  /\ loop.frames[c].pc = "test"
  /\ SetFrame(c, [loop.frames[c] EXCEPT
                    !.pc = IF loop.frames[c].arg \in DOMAIN idle.watches
                           THEN "delete" ELSE "return"])
  /\ UNCHANGED <<idle, issued>>
  /\ DispatchFrame

\* del self._watches[id]
RemoveDelete(c) ==
  /\ loop.frames[c].pc = "delete"
  /\ idle' = [idle EXCEPT
                !.watches = [i \in DOMAIN @ \ {loop.frames[c].arg} |-> @[i]]]
  /\ loop' = [loop EXCEPT !.frames[c].pc = "return",
                          !.removed = @ \cup {loop.frames[c].arg}]
  /\ UNCHANGED issued
  /\ DispatchFrame

\* return: the reply goes to the client and the loop has control again
Return(c) ==
  /\ loop.frames[c].pc = "return"
  /\ issued' = IF loop.frames[c].op = "RemoveWatch" THEN issued
               ELSE Append(issued, loop.frames[c].watch_id)
  /\ SetFrame(c, NoFrame)
  /\ UNCHANGED idle
  /\ DispatchFrame

\* the reader task handles one "resume" line; as a task of the same loop it
\* gets to run only when the loop has control
ReaderResume ==
  /\ LoopFree(loop.frames)
  /\ idle.last_active # now
  /\ idle' = UpdateActivity(idle, now)
  /\ UNCHANGED <<issued, loop>>
  /\ DispatchFrame

NextDispatch ==
  \/ \E c \in Clients : ClientCall(c)
  \/ \E c \in Clients : Dispatch(c)
  \/ \E c \in Clients : AddRead(c)
  \/ \E c \in Clients : AddIncrement(c)
  \/ \E c \in Clients : AddStore(c)
  \/ \E c \in Clients : RemoveTest(c)
  \/ \E c \in Clients : RemoveDelete(c)
  \/ \E c \in Clients : Return(c)
  \/ ReaderResume
  \/ Tick

SpecDispatch == InitDispatch /\ [][NextDispatch]_vars

\* ------------------------------------------------------------------------
\* Properties
\* ------------------------------------------------------------------------

Done == last.method # "none"
FailureReply == [success |-> FALSE, path |-> <<>>]
Resolved == ResolveFilename(last.filename, picturesDir)

\* C1: the tools a request invokes are the retained tools in list order
\* (the k calls made went to the first k retained tools, one each), and
\* with two retained tools of which the first returns false and the second
\* true, the selector's result is true.
C1_InvokedInListOrder ==
  /\ Len(last.calls) <= Len(backends)
  /\ CallTools(last.calls) = SubSeq(backends, 1, Len(last.calls))
  /\ ( /\ Len(last.calls) = 2
       /\ last.calls[1].result = "false"
       /\ last.calls[2].result = "true" ) => last.manager = "true"

C1_Witness ==
  /\ backends = <<Flameshot, GnomeScreenshot>>
  /\ Len(last.calls) = 2
  /\ last.calls[1].tool = Flameshot /\ last.calls[1].result = "false"
  /\ last.calls[2].tool = GnomeScreenshot /\ last.calls[2].result = "true"
  /\ last.manager = "true"

\* C2: within a request no tool is invoked after one that returned true,
\* the selector returns true exactly when the last tool invoked returned
\* true, and it returns false only when every retained tool was invoked
\* and returned false.
C2_ShortCircuit ==
  /\ \A i \in 1..(Len(last.calls) - 1) : last.calls[i].result = "false"
  /\ last.manager = "true" <=>
       (last.calls # <<>> /\ last.calls[Len(last.calls)].result = "true")
  /\ last.manager = "false" =>
       /\ Done
       /\ Len(last.calls) = Len(backends)
       /\ \A i \in 1..Len(last.calls) : last.calls[i].result = "false"

C2_Witness ==
  /\ Len(backends) = 2
  /\ Len(last.calls) = 1
  /\ last.calls[1].result = "true"
  /\ last.manager = "true"

\* C3: with an empty retained list every Screenshot, ScreenshotWindow and
\* ScreenshotArea request is answered (false, "") and calls no tool, so no
\* process is spawned.
C3_EmptyListFails ==
  (backends = <<>> /\ Done) =>
     /\ ~last.raised
     /\ last.reply = FailureReply
     /\ last.calls = <<>>

C3_Witness ==
  /\ backends = <<>>
  /\ last.method = "ScreenshotWindow"
  /\ last.reply = FailureReply

\* C4: a capture request leaves the retained list as it is, whatever the
\* tools returned; the next request starts again at the first retained tool
\* and, as far as it gets, invokes the same tool at the same position as
\* the request before, also where that tool returned false.
C4_StatelessAcrossCalls ==
  [][ /\ backends' = backends
      /\ backends # <<>> =>
           (last'.calls # <<>> /\ last'.calls[1].tool = backends[1])
      /\ \A j \in 1..Len(last.calls) :
           j <= Len(last'.calls) => last'.calls[j].tool = last.calls[j].tool
    ]_vars

C4_Witness ==
  /\ retried
  /\ last.calls[1].result = "true"
  /\ backends = InitializeBackends(Candidates, binaryFound)

\* C5: the retained list is the candidate list <<flameshot,
\* gnome-screenshot>> filtered by availability, order kept, and each
\* candidate was probed once.
C5_RetainedIsFilter ==
  /\ backends = SelectSeq(Candidates, LAMBDA t : binaryFound[t])
  /\ \A t \in Tools : probes[t] = 1

C5_Witness ==
  /\ ~binaryFound[Flameshot]
  /\ binaryFound[GnomeScreenshot]
  /\ backends = <<GnomeScreenshot>>
  /\ probes[Flameshot] = 1

\* C6: no exception leaves Screenshot or ScreenshotArea; when the capture
\* raised, the reply is (false, "").
C6_ExceptionsCaught ==
  last.method \in {"Screenshot", "ScreenshotArea"} =>
     /\ ~last.raised
     /\ last.manager = "raise" => last.reply = FailureReply

C6_Witness ==
  /\ last.method = "ScreenshotArea"
  /\ last.manager = "raise"
  /\ last.reply = FailureReply

C8_ToolNeverRaises ==
  \A i \in 1..Len(last.calls) :
     /\ last.calls[i].result \in {"true", "false"}
     /\ last.calls[i].result = "true" => last.calls[i].outcome = "exit0_file"
     /\ last.calls[i].outcome \in {"timeout", "nonzero", "exit0_nofile"}
          => last.calls[i].result = "false"

\* C9: gnome-screenshot's captureArea is its captureFull on the same path
\* (same command line, same result), for every rectangle, also one with
\* width or height <= 0.
C9_GnomeAreaIsFull ==
  last.method = "ScreenshotArea" =>
    \A i \in 1..Len(last.calls) :
       last.calls[i].tool = GnomeScreenshot =>
          last.calls[i] = GnomeCaptureFull(Resolved, FALSE,
                                           last.world.mkdirOK,
                                           last.world.outs[i])

C9_Witness ==
  /\ last.method = "ScreenshotArea"
  /\ (last.rect[3] <= 0 \/ last.rect[4] <= 0)
  /\ \E i \in 1..Len(last.calls) :
        /\ last.calls[i].tool = GnomeScreenshot
        /\ last.calls[i].result = "true"

\* C10: ScreenshotWindow(includeFrame, includeCursor, flash, filename) makes
\* the tool calls and gives the reply that Screenshot(includeCursor, flash,
\* filename) makes and gives in the same world, whatever includeFrame is.
C10_WindowIsScreenshot ==
  last.method = "ScreenshotWindow" =>
    LET r == Screenshot(last.include_cursor, last.flash, last.filename,
                        backends, picturesDir,
                        last.world.mkdirOK, last.world.outs)
    IN  /\ last.calls = r.calls
        /\ last.raised = r.raised
        /\ last.reply = r.reply

C10_Witness ==
  /\ last.method = "ScreenshotWindow"
  /\ last.include_frame /\ ~last.include_cursor
  /\ last.reply.success
  /\ last.calls[Len(last.calls)].tool = GnomeScreenshot

Adds == {"AddIdleWatch", "AddUserActiveWatch"}

\* C11: the watch ids returned, by AddIdleWatch and AddUserActiveWatch
\* alike, start at 1 and each is greater than every id returned before it,
\* also when the earlier watch has been removed meanwhile.
C11_IdsNeverReused ==
  /\ issued # <<>> => issued[1] = 1
  /\ \A i \in 1..Len(issued) : issued[i] >= 1
  /\ \A i, j \in 1..Len(issued) : i < j => issued[i] < issued[j]

C11_Witness ==
  /\ lastIdle.op = "AddUserActiveWatch"
  /\ lastIdle.ret = 2
  /\ issued = <<1, 2>>
  /\ 1 \notin DOMAIN idle.watches

\* C12: a RemoveWatch of the id that the call right before it (AddIdleWatch
\* or AddUserActiveWatch) returned leaves the registry as it was before
\* that add.
C12_AddRemoveRoundTrip ==
  [][ ( /\ lastIdle'.op = "RemoveWatch"
        /\ lastIdle.op \in Adds
        /\ lastIdle'.arg = lastIdle.ret )
      => idle'.watches = lastIdle.before ]_vars

C12_Witness ==
  /\ lastIdle.undoes
  /\ DOMAIN idle.watches = {1}
  /\ DOMAIN lastIdle.before = {1, 2}

\* C13: RemoveWatch(id) deletes the entry id and nothing else: the other
\* watches, the id counter and last_active stay; with id not registered the
\* whole object stays as it is; it returns normally either way.
C13_RemoveWatchFrame ==
  [][ lastIdle'.op = "RemoveWatch" =>
        LET id == lastIdle'.arg
        IN  /\ DOMAIN idle'.watches = DOMAIN idle.watches \ {id}
            /\ \A i \in DOMAIN idle'.watches :
                 idle'.watches[i] = idle.watches[i]
            /\ idle'.watch_id_counter = idle.watch_id_counter
            /\ idle'.last_active = idle.last_active
            /\ id \notin DOMAIN idle.watches => idle' = idle
            /\ lastIdle'.ret = NoValue
            /\ fired' = fired /\ issued' = issued ]_vars

C13_Witness ==
  /\ lastIdle.op = "RemoveWatch"
  /\ lastIdle.arg = 1
  /\ 1 \notin DOMAIN lastIdle.before
  /\ issued = <<1, 2>>
  /\ DOMAIN idle.watches = {2}

\* C14: GetIdletime returns the real monitor's idle time when the real
\* monitor is connected, and otherwise now - last_active in whole
\* milliseconds.
C14_IdletimeValue ==
  lastIdle.op = "GetIdletime" =>
    lastIdle.ret = IF idle.use_real_monitor
                   THEN lastIdle.real
                   ELSE IdleMs(now - idle.last_active)

\* C15: ResetIdletime sets last_active to the current time, whatever the
\* object was, and a GetIdletime with no time elapsed since returns 0.
C15_ResetThenZero ==
  /\ lastIdle.op = "ResetIdletime" => idle.last_active = now
  /\ (lastIdle.op = "GetIdletime" /\ idle.last_active = now)
        => lastIdle.ret = 0

C15_Witness ==
  /\ lastIdle.op = "GetIdletime"
  /\ lastIdle.ret = 0
  /\ now > 0
  /\ idle.last_active = now
  /\ ~idle.use_real_monitor
  /\ idle.watches # <<>>

\* C18: WatchFired is never emitted, also not while the idle time is at or
\* above the interval of a registered idle watch.
C18_WatchFiredNeverEmitted ==
  fired = <<>>

C18_Witness ==
  /\ lastIdle.op = "GetIdletime"
  /\ ~idle.use_real_monitor
  /\ \E i \in DOMAIN idle.watches :
        /\ idle.watches[i].type = "idle"
        /\ idle.watches[i].interval <= lastIdle.ret

\* C16: last_active changes only in a ResetIdletime call and in the
\* reader's handling of a resume event, which needs an external source:
\* GetIdletime, the add and remove methods, the screenshot methods and the
\* passage of time leave it as it is.
C16_LastActiveWriters ==
  [][ idle'.last_active # idle.last_active =>
        /\ lastIdle'.op \in {"ResetIdletime", "resume"}
        /\ last'.method = "none"
        /\ lastIdle'.op = "resume" => tracking = "external" ]_vars

C16_Witness ==
  /\ last.method = "ScreenshotArea"
  /\ tracking = "internal"
  /\ 0 < idle.last_active /\ idle.last_active < now
  /\ idle.watches # <<>>

C19_NameAcquisition ==
  /\ main.screenshotName \in {"in_queue", "dbus_error"} =>
       (main.pc = "exited" /\ main.exit # 0)
  /\ main.idleName \in {"in_queue", "dbus_error"} =>
       (main.pc = "ready" \/ (main.pc = "exited" /\ main.exit = 0))

\* C20: an absolute filename resolves to itself; a relative one to the
\* pictures directory followed by the filename when XDG_PICTURES_DIR names an
\* existing directory, and to the home directory followed by the filename
\* otherwise.  Screenshot, ScreenshotWindow and ScreenshotArea all hand
\* exactly this path to every tool they run, and return it on success.
ExpectedPath ==
  IF last.filename[1] = "/" THEN last.filename
  ELSE IF picturesDir = "dir" THEN PicturesDir \o last.filename
  ELSE Home \o last.filename

C20_FilenameResolution ==
  Done =>
    /\ \A i \in 1..Len(last.calls) :
         last.calls[i].cmd # NoCmd => last.calls[i].cmd.path = ExpectedPath
    /\ last.reply.success => last.reply.path = ExpectedPath

C20_Witness ==
  /\ last.method = "ScreenshotArea"
  /\ last.filename = <<"shot.png">>
  /\ picturesDir = "dir"
  /\ Len(last.calls) = 2
  /\ last.calls[2].cmd.path = <<"/", "home", "user", "Pictures", "shot.png">>
  /\ last.reply = [success |-> TRUE,
                   path |-> <<"/", "home", "user", "Pictures", "shot.png">>]

\* C23: every capture request comes to an end (the selector returned true or
\* false or an exception left it, and the caller has its answer); within
\* one request no retained tool is invoked twice, so a list of N tools gives
\* at most N invocations, and each invocation ended by exit or by the
\* timeout or was never started.
C23_BoundedFallback ==
  Done =>
    /\ last.manager \in {"true", "false", "raise"}
    /\ last.raised \/ last.reply # NoReply
    /\ Len(last.calls) <= Len(backends)
    /\ \A i, j \in 1..Len(last.calls) :
         i # j => last.calls[i].tool # last.calls[j].tool
    /\ \A i \in 1..Len(last.calls) :
         last.calls[i].outcome \in RunOutcomes \cup {NotRun}

C23_Witness ==
  /\ last.method = "ScreenshotArea"
  /\ Len(backends) = 2
  /\ Len(last.calls) = 2
  /\ last.calls[1].outcome = "timeout"
  /\ last.calls[2].outcome = "nonzero"
  /\ last.reply = FailureReply

\* C22: main goes through its steps in one order: manager, bus connection,
\* interfaces, export, screenshot name, idle-monitor name.  It is ready only
\* after all of them, with at least one backend retained, the session bus
\* connected, both objects exported and a screenshot name request that did
\* not raise.  With no backend retained the process has exited with a
\* nonzero status right after the manager step: no bus connection, neither
\* name requested, no call served.
StartupOrder ==
  <<"manager", "connect", "interfaces", "export", "screenshot_name",
    "idle_name">>

BothObjects ==
  {"/org/gnome/Shell/Screenshot", "/org/gnome/Mutter/IdleMonitor/Core"}

C22_StartupOrdering ==
  /\ Len(main.steps) <= Len(StartupOrder)
  /\ main.steps = SubSeq(StartupOrder, 1, Len(main.steps))
  /\ main.pc = "ready" =>
       /\ main.steps = StartupOrder
       /\ backends # <<>>
       /\ main.bus = "session"
       /\ main.exported = BothObjects
       /\ main.screenshotName \in {"primary_owner", "in_queue"}
  /\ main.served => (backends # <<>> /\ Len(main.steps) >= 4)
  /\ (main.steps # <<>> /\ backends = <<>>) =>
       /\ main.pc = "exited"
       /\ main.exit # 0
       /\ main.exit # NoValue
       /\ main.steps = <<"manager">>
       /\ main.bus = "none"
       /\ main.screenshotName = "none"
       /\ main.idleName = "none"
       /\ ~main.served

C22_Witness ==
  /\ main.pc = "ready"
  /\ main.served
  /\ backends = <<GnomeScreenshot>>
  /\ main.idleName = "dbus_error"
  /\ main.steps = StartupOrder

\* C21: at most one handler is between its entry and its return, and that
\* handler leaves the idle object exactly as it would running alone from its
\* entry (no other handler and no reader step came in between) and returns
\* the id it would return alone; the ids returned to the clients are all
\* different, and every id returned and not removed since is in the
\* registry.
Running == {c \in Clients : loop.frames[c].pc \notin {"none", "queued"}}

C21_HandlersDoNotInterleave ==
  /\ Cardinality(Running) <= 1
  /\ \A c \in Clients :
       loop.frames[c].pc = "return" =>
         /\ idle = Uninterrupted(loop.frames[c]).self
         /\ loop.frames[c].op # "RemoveWatch" =>
              loop.frames[c].watch_id = Uninterrupted(loop.frames[c]).ret
  /\ \A i, j \in 1..Len(issued) : i # j => issued[i] # issued[j]
  /\ \A i \in 1..Len(issued) :
       issued[i] \notin loop.removed => issued[i] \in DOMAIN idle.watches

\* two adds sent by different clients are in flight at once: one has been
\* handled up to its return, the other waits in the socket
C21_Witness ==
  /\ loop.frames["c1"].pc = "return"
  /\ loop.frames["c1"].op = "AddUserActiveWatch"
  /\ loop.frames["c1"].watch_id = 1
  /\ loop.frames["c2"].pc = "queued"
  /\ loop.frames["c2"].op = "AddIdleWatch"
  /\ issued = <<>>
  /\ DOMAIN idle.watches = {1}
  /\ idle.last_active > 0

====
